---- MODULE Spec2Model ----
(***************************************************************************)
(* A model of NotificationsStore (app/src/lib/stores/notifications-store.ts):*)
(* the store's fields, its public operations, and the asynchronous         *)
(* checks-failed handler split at every await that yields to the event     *)
(* loop.  Several handler invocations may be suspended at once; public     *)
(* operations and other handlers run between their steps.                  *)
(***************************************************************************)
EXTENDS Naturals, Sequences, FiniteSets

\* ------------------------------------------------------------------ bounds

\* Invocations of onAliveEventReceived over the life of the store.
MaxHandlers == 2
\* Calls of aliveStore.setEnabled over the life of the store (the constructor's
\* call included).
MaxSetEnabledCalls == 2
\* Clicks on posted notifications.
MaxClicks == 1
\* Entries of one combined-status answer and of one check-runs answer, where
\* the answers are enumerated.
MaxStatuses == 2
MaxCheckRuns == 3

\* --------------------------------------------------------------- values

\* null / undefined of a record-valued expression.
None == [none |-> TRUE]
\* null of a repository reference.
Null == "null"

NotificationsEnabledKey == "high-signal-notifications-enabled"

ChecksFailedType == "pr-checks-failed"
OtherType == "other-event"

Failure == "failure"

\* ---------------------------------------------------- the environment

\* The repositories the user can select; localOnly has no GitHub repository.
Repositories == {"repoA", "repoB", "localOnly"}

gitHubRepository(r) ==
  CASE r = "repoA" -> [endpoint |-> "github.com", owner |-> "octo", name |-> "a"]
    [] r = "repoB" -> [endpoint |-> "ghe.corp", owner |-> "corp", name |-> "b"]
    [] OTHER -> None

isRepositoryWithGitHubRepository(r) == gitHubRepository(r) /= None

\* The callbacks a caller may register.
Callbacks == {"cb1", "cb2"}

PullRequestNumbers == {1, 2}
SHAs == {"sha_a", "sha_b", "sha_c"}

\* The events the Alive store can deliver.
AliveEvents ==
  {[type |-> OtherType, pull_request_number |-> 1, commit_sha |-> "sha_a"]}
  \cup [type : {ChecksFailedType},
        pull_request_number : PullRequestNumbers,
        commit_sha : SHAs]

\* pullRequestCoordinator.getAllPullRequests(repository)
getAllPullRequests(r) ==
  CASE r = "repoA" ->
         <<[pullRequestNumber |-> 1, title |-> "Fix A", head |-> [ref |-> "fix-a"]]>>
    [] r = "repoB" ->
         <<[pullRequestNumber |-> 2, title |-> "Fix B", head |-> [ref |-> "fix-b"]]>>
    [] OTHER -> <<>>

\* What accountsStore.getAll() may return at the moment it is called.
dotcomAccount == [endpoint |-> "github.com", emails |-> <<[email |-> "me@x"]>>]
gheAccount ==
  [endpoint |-> "ghe.corp", emails |-> <<[email |-> "me@x"], [email |-> "me@corp"]>>]
AccountLists == {<<>>, <<gheAccount, dotcomAccount>>}

\* getCommit(repository, sha): the same commit for the same SHA; sha_c is in
\* no repository.
getCommit(r, sha) ==
  CASE sha = "sha_a" ->
         [sha |-> sha, summary |-> "change a", author |-> [email |-> "me@x"]]
    [] sha = "sha_b" ->
         [sha |-> sha, summary |-> "change b", author |-> [email |-> "me@corp"]]
    [] OTHER -> None

\* What api.fetchCombinedRefStatus may return.
StatusResponses ==
  {None,
   [statuses |-> <<>>],
   [statuses |-> <<[id |-> 7, context |-> "ci/legacy", state |-> "failure"]>>]}

\* What api.fetchRefCheckRuns may return (id: the later run has the larger).
CheckRunResponses ==
  {None,
   [check_runs |-> <<>>],
   [check_runs |-> <<[id |-> 3, name |-> "lint", conclusion |-> "cancelled"]>>],
   [check_runs |-> <<[id |-> 1, name |-> "build", conclusion |-> "success"],
                     [id |-> 2, name |-> "build", conclusion |-> Failure]>>]}

\* The sequences of at most n distinct elements of S.
SeqsOver(S, n) ==
  UNION {{f \in [1..k -> S] : \A i, j \in 1..k : i /= j => f[i] /= f[j]} :
           k \in 0..n}

\* The statuses and check runs a ref can have, for the enumerated answers.
ApiStatuses ==
  {[id |-> 7, context |-> "ci/legacy", state |-> "failure"],
   [id |-> 8, context |-> "ci/deploy", state |-> "success"],
   [id |-> 9, context |-> "ci/slow", state |-> "pending"]}

ApiCheckRuns ==
  {[id |-> 1, name |-> "build", conclusion |-> "success"],
   [id |-> 2, name |-> "build", conclusion |-> Failure],
   [id |-> 3, name |-> "lint", conclusion |-> "cancelled"],
   [id |-> 4, name |-> "lint", conclusion |-> Failure]}

\* Every answer of api.fetchCombinedRefStatus with up to MaxStatuses statuses.
StatusInputs ==
  {None} \cup {[statuses |-> st] : st \in SeqsOver(ApiStatuses, MaxStatuses)}

\* Every answer of api.fetchRefCheckRuns with up to MaxCheckRuns runs, in any
\* order.
CheckRunInputs ==
  {None} \cup {[check_runs |-> cr] : cr \in SeqsOver(ApiCheckRuns, MaxCheckRuns)}

\* --------------------------------------------------------------- helpers

\* Array.prototype.find over the indices that satisfy the test: the element at
\* the first of them, or None (undefined).
FindAt(seq, hits) ==
  IF hits = {} THEN None
  ELSE seq[CHOOSE i \in hits : \A j \in hits : i <= j]

\* ------------------------------------------------------- check aggregation

\* ci-checks: one commit status as a RefCheck.
apiStatusToRefCheck(apiStatus) ==
  [id |-> apiStatus.id,
   name |-> apiStatus.context,
   conclusion |-> CASE apiStatus.state = "failure" -> Failure
                    [] apiStatus.state = "success" -> "success"
                    [] apiStatus.state = "error" -> "action_required"
                    [] OTHER -> "none"]

\* ci-checks: one check run as a RefCheck.
apiCheckRunToRefCheck(checkRun) ==
  [id |-> checkRun.id, name |-> checkRun.name, conclusion |-> checkRun.conclusion]

\* The most recent run among those of one name; of two equally recent runs the
\* one that comes first in the response.
LatestRunOfName(checkRuns, name) ==
  LET idx == {i \in 1..Len(checkRuns) : checkRuns[i].name = name}
      best == CHOOSE i \in idx :
                \A j \in idx :
                  \/ checkRuns[i].id > checkRuns[j].id
                  \/ checkRuns[i].id = checkRuns[j].id /\ i <= j
  IN checkRuns[best]

RECURSIVE LatestRunsFrom(_, _)
LatestRunsFrom(checkRuns, i) ==
  IF i > Len(checkRuns) THEN <<>>
  ELSE IF \E j \in 1..(i - 1) : checkRuns[j].name = checkRuns[i].name
       THEN LatestRunsFrom(checkRuns, i + 1)
       ELSE <<LatestRunOfName(checkRuns, checkRuns[i].name)>>
              \o LatestRunsFrom(checkRuns, i + 1)

\* ci-checks: one run per name, the names in the order they first appear.
getLatestCheckRunsByName(checkRuns) == LatestRunsFrom(checkRuns, 1)

\* ci-checks: null for no checks, else the checks with their overall conclusion.
createCombinedCheckFromChecks(checks) ==
  IF Len(checks) = 0 THEN None
  ELSE [checks |-> checks,
        conclusion |-> IF \E i \in 1..Len(checks) : checks[i].conclusion = Failure
                       THEN Failure ELSE "success"]

\* Whichever fetch answered is used; a null answer counts as no entries.
ChecksFromResponsesBestEffort(statuses, checkRuns) ==
  LET latestCheckRunsByName ==
        IF checkRuns = None THEN <<>>
        ELSE getLatestCheckRunsByName(checkRuns.check_runs)
      checks ==
        (IF statuses = None THEN <<>>
         ELSE [i \in 1..Len(statuses.statuses) |->
                 apiStatusToRefCheck(statuses.statuses[i])])
        \o [i \in 1..Len(latestCheckRunsByName) |->
              apiCheckRunToRefCheck(latestCheckRunsByName[i])]
      check == createCombinedCheckFromChecks(checks)
  IN IF check = None THEN None
     ELSE IF Len(check.checks) = 0 THEN None
     ELSE [checks |-> check.checks]

\* Every check run of the answer is kept, not the latest of each name.
ChecksFromResponsesEveryRun(statuses, checkRuns) ==
  IF statuses = None \/ checkRuns = None THEN None
  ELSE LET checks ==
             [i \in 1..Len(statuses.statuses) |->
                apiStatusToRefCheck(statuses.statuses[i])]
             \o [i \in 1..Len(checkRuns.check_runs) |->
                   apiCheckRunToRefCheck(checkRuns.check_runs[i])]
           check == createCombinedCheckFromChecks(checks)
       IN IF check = None THEN None
          ELSE IF Len(check.checks) = 0 THEN None
          ELSE [checks |-> check.checks]

\* getChecksForRef from the join of the two fetches on: None for null, else
\* [checks |-> the array returned].
ChecksFromResponses(statuses, checkRuns) ==
  IF statuses = None \/ checkRuns = None THEN None
  ELSE LET latestCheckRunsByName == getLatestCheckRunsByName(checkRuns.check_runs)
           checks ==
             [i \in 1..Len(statuses.statuses) |->
                apiStatusToRefCheck(statuses.statuses[i])]
             \o [i \in 1..Len(latestCheckRunsByName) |->
                   apiCheckRunToRefCheck(latestCheckRunsByName[i])]
           check == createCombinedCheckFromChecks(checks)
       IN IF check = None THEN None
          ELSE IF Len(check.checks) = 0 THEN None
          ELSE [checks |-> check.checks]

\* ---------------------------------------------------------------- state

VARIABLES
  repository,              \* this.repository: a repository or Null
  onChecksFailedCallback,  \* this.onChecksFailedCallback: a callback or Null
  cachedCommits,           \* this.cachedCommits: SHA -> commit
  skipCommitShas,          \* this.skipCommitShas
  localStorage,            \* the persisted settings: key -> boolean
  aliveEnabled,            \* the value last given to aliveStore.setEnabled
  handlers,                \* the invocations of onAliveEventReceived
  notifications,           \* the notifications shown
  invocations,             \* the calls made of registered callbacks, in order
  setEnabledCalls,         \* history: calls of aliveStore.setEnabled so far
  setBooleanCalls,         \* history: calls of setBoolean so far
  lastEnabled,             \* history: the argument of the last
                           \* setNotificationsEnabled, {} before any call
  lastSelected,            \* history: the argument of the last selectRepository
  lastRegistered,          \* history: the argument of the last onChecksFailedNotification
  clicked                  \* history: the notifications clicked, in order

storeVars == <<repository, onChecksFailedCallback, cachedCommits, skipCommitShas>>
settingsVars == <<localStorage, aliveEnabled, setEnabledCalls, setBooleanCalls,
                  lastEnabled>>
callbackVars == <<onChecksFailedCallback, lastRegistered>>
clickVars == <<invocations, clicked>>
vars == <<repository, onChecksFailedCallback, cachedCommits, skipCommitShas,
          localStorage, aliveEnabled, handlers, notifications, invocations,
          setEnabledCalls, setBooleanCalls, lastEnabled, lastSelected,
          lastRegistered, clicked>>

Handlers == 1..MaxHandlers

\* local-storage: the boolean stored under key, or defaultValue when none is.
getBoolean(key, defaultValue) ==
  IF key \in DOMAIN localStorage THEN localStorage[key] ELSE defaultValue

getNotificationsEnabled == getBoolean(NotificationsEnabledKey, TRUE)

\* A slot no event has been delivered to yet.
IdleHandler ==
  [pc |-> "idle", event |-> None, repository |-> Null, pullRequest |-> None,
   account |-> None, commit |-> None, fetched |-> None, calls |-> {},
   outcome |-> "none", selectionChanged |-> FALSE, skipKnown |-> FALSE]

\* The store after construction, over whatever an earlier run persisted.
Init ==
  /\ repository = Null
  /\ onChecksFailedCallback = Null
  /\ cachedCommits = [sha \in {} |-> None]
  /\ skipCommitShas = {}
  /\ localStorage \in {[k \in {} |-> TRUE]}
                        \cup [{NotificationsEnabledKey} -> BOOLEAN]
  /\ aliveEnabled = getNotificationsEnabled
  /\ handlers = [h \in Handlers |-> IdleHandler]
  /\ notifications = {}
  /\ invocations = <<>>
  /\ setEnabledCalls = 1
  /\ setBooleanCalls = 0
  /\ lastEnabled = {}
  /\ lastSelected = Null
  /\ lastRegistered = Null
  /\ clicked = <<>>

\* ------------------------------------------------- the public operations

\* No early return: the flag is written and passed on whatever it was.
setNotificationsEnabledAlways(enabled) ==
  /\ setEnabledCalls < MaxSetEnabledCalls
  /\ lastEnabled' = {enabled}
  /\ localStorage' = [k \in DOMAIN localStorage \cup {NotificationsEnabledKey}
                       |-> IF k = NotificationsEnabledKey THEN enabled
                           ELSE localStorage[k]]
  /\ setBooleanCalls' = setBooleanCalls + 1
  /\ aliveEnabled' = enabled
  /\ setEnabledCalls' = setEnabledCalls + 1
  /\ UNCHANGED <<storeVars, handlers, notifications, clickVars,
                 lastSelected, lastRegistered>>

\* The flag is written but not passed on to the Alive store.
setNotificationsEnabledNotPassedOn(enabled) ==
  /\ setEnabledCalls < MaxSetEnabledCalls
  /\ lastEnabled' = {enabled}
  /\ IF getBoolean(NotificationsEnabledKey, TRUE) = enabled
     THEN UNCHANGED <<localStorage, setBooleanCalls>>
     ELSE /\ localStorage' = [k \in DOMAIN localStorage \cup {NotificationsEnabledKey}
                               |-> IF k = NotificationsEnabledKey THEN enabled
                                   ELSE localStorage[k]]
          /\ setBooleanCalls' = setBooleanCalls + 1
  /\ UNCHANGED <<aliveEnabled, setEnabledCalls>>
  /\ UNCHANGED <<storeVars, handlers, notifications, clickVars,
                 lastSelected, lastRegistered>>

\* setNotificationsEnabled(enabled)
setNotificationsEnabled(enabled) ==
  LET previousValue == getBoolean(NotificationsEnabledKey, TRUE)
  IN /\ setEnabledCalls < MaxSetEnabledCalls
     /\ lastEnabled' = {enabled}
     /\ IF previousValue = enabled
        THEN UNCHANGED <<localStorage, aliveEnabled, setEnabledCalls, setBooleanCalls>>
        ELSE /\ localStorage' = [k \in DOMAIN localStorage \cup {NotificationsEnabledKey}
                                  |-> IF k = NotificationsEnabledKey THEN enabled
                                      ELSE localStorage[k]]
             /\ setBooleanCalls' = setBooleanCalls + 1
             /\ aliveEnabled' = enabled
             /\ setEnabledCalls' = setEnabledCalls + 1
     /\ UNCHANGED <<storeVars, handlers, notifications, clickVars,
                    lastSelected, lastRegistered>>

\* A handler suspended at an await, from intake to its return.
InFlight(me) == me.pc \notin {"idle", "done"}

\* Any repository is kept, with or without a GitHub repository.
selectRepositoryAny(r) ==
  /\ repository' = r
  /\ lastSelected' = r
  /\ handlers' = [h \in Handlers |->
                    IF InFlight(handlers[h]) /\ repository' /= repository
                    THEN [handlers[h] EXCEPT !.selectionChanged = TRUE]
                    ELSE handlers[h]]
  /\ UNCHANGED <<onChecksFailedCallback, cachedCommits, skipCommitShas,
                 settingsVars, notifications, clickVars, lastRegistered>>

\* selectRepository(repository)
selectRepository(r) ==
  /\ repository' = IF isRepositoryWithGitHubRepository(r) THEN r ELSE Null
  /\ lastSelected' = r
  /\ handlers' = [h \in Handlers |->
                    IF InFlight(handlers[h]) /\ repository' /= repository
                    THEN [handlers[h] EXCEPT !.selectionChanged = TRUE]
                    ELSE handlers[h]]
  /\ UNCHANGED <<onChecksFailedCallback, cachedCommits, skipCommitShas,
                 settingsVars, notifications, clickVars, lastRegistered>>

\* The first callback registered is kept.
onChecksFailedNotificationFirstWins(callback) ==
  /\ onChecksFailedCallback' = IF onChecksFailedCallback = Null THEN callback
                               ELSE onChecksFailedCallback
  /\ lastRegistered' = callback
  /\ UNCHANGED <<repository, cachedCommits, skipCommitShas, settingsVars,
                 handlers, notifications, clickVars, lastSelected>>

\* onChecksFailedNotification(callback)
onChecksFailedNotification(callback) ==
  /\ onChecksFailedCallback' = callback
  /\ lastRegistered' = callback
  /\ UNCHANGED <<repository, cachedCommits, skipCommitShas, settingsVars,
                 handlers, notifications, clickVars, lastSelected>>

\* The click handler bound to notification n.
Click(n) ==
  /\ Len(clicked) < MaxClicks
  /\ clicked' = Append(clicked, n.id)
  /\ IF onChecksFailedCallback /= Null
     THEN invocations' = Append(invocations,
                                [callback |-> onChecksFailedCallback,
                                 repository |-> n.repository,
                                 pullRequest |-> n.pullRequest,
                                 commitMessage |-> n.commitMessage,
                                 commitSha |-> n.sha,
                                 checkRuns |-> n.checks])
     ELSE UNCHANGED invocations
  /\ UNCHANGED <<storeVars, settingsVars, handlers, notifications,
                 lastSelected, lastRegistered>>

\* ------------------------------------------------ the checks-failed handler

\* The handler returns: its locals go out of scope; the kind of event it was
\* given, what it called and the return it left through stay on record.
Return(me, outcome) ==
  [IdleHandler EXCEPT !.pc = "done", !.event = [type |-> me.event.type],
                      !.calls = me.calls, !.outcome = outcome,
                      !.skipKnown = me.skipKnown]

\* The handler calls a collaborator and is suspended until it answers.
Await(me, call, pc) == [me EXCEPT !.pc = pc, !.calls = @ \cup {call}]

\* The Alive store delivers events only while it is enabled.
AliveStoreDelivers == aliveEnabled

\* Every kind of event goes to the checks-failed handler.
HandlesAny(e) == TRUE

\* The switch of onAliveEventReceived.
Handles(e) == e.type = ChecksFailedType

\* handleChecksFailedEvent up to its first await.
handleChecksFailedEvent(h, me) ==
  IF repository = Null
  THEN handlers' = [handlers EXCEPT ![h] = Return(me, "NoActiveRepository")]
  ELSE handlers' = [handlers EXCEPT ![h] =
         Await([me EXCEPT !.repository = repository],
               "getAllPullRequests", "getAllPullRequests")]

\* onAliveEventReceived(e), in the next free slot h.
onAliveEventReceived(h, e) ==
  LET me == [handlers[h] EXCEPT !.event = e,
                                !.skipKnown = e.commit_sha \in skipCommitShas]
  IN /\ handlers[h].pc = "idle"
     /\ \A g \in Handlers : g < h => handlers[g].pc /= "idle"
     /\ AliveStoreDelivers
     /\ IF Handles(e)
        THEN handleChecksFailedEvent(h, me)
        ELSE handlers' = [handlers EXCEPT ![h] = Return(me, "Ignored")]
     /\ UNCHANGED <<storeVars, settingsVars, notifications, clickVars,
                    lastSelected, lastRegistered>>

\* getAllPullRequests answers: find the pull request, then getAccountForRepository
\* up to its await.
ResumeGetAllPullRequests(h) ==
  LET me == handlers[h]
      pullRequests == getAllPullRequests(me.repository)
      pullRequest ==
        FindAt(pullRequests,
               {i \in 1..Len(pullRequests) :
                  pullRequests[i].pullRequestNumber = me.event.pull_request_number})
  IN /\ me.pc = "getAllPullRequests"
     /\ IF pullRequest = None
        THEN handlers' = [handlers EXCEPT ![h] = Return(me, "PullRequestNotFound")]
        ELSE handlers' = [handlers EXCEPT ![h] =
               Await([me EXCEPT !.pullRequest = pullRequest],
                     "accountsStore.getAll", "getAccountForRepository")]
     /\ UNCHANGED <<storeVars, settingsVars, notifications, clickVars,
                    lastSelected, lastRegistered>>

\* getAccountForRepository from its await on.
getAccountForRepository(ghRepository, accounts) ==
  FindAt(accounts,
         {i \in 1..Len(accounts) : accounts[i].endpoint = ghRepository.endpoint})

\* The Skip Set is never consulted.
skipCommitShasHasNever(commitSHA) == FALSE

skipCommitShasHas(commitSHA) == commitSHA \in skipCommitShas

\* The Commit Cache is never found to hold a commit.
cachedCommitsGetNever(commitSHA) == None

cachedCommitsGet(commitSHA) ==
  IF commitSHA \in DOMAIN cachedCommits THEN cachedCommits[commitSHA] ELSE None

\* The new entry replaces the map.
cachedCommitsSetOnly(commitSHA, commit) == [sha \in {commitSHA} |-> commit]

cachedCommitsSet(commitSHA, commit) ==
  [sha \in DOMAIN cachedCommits \cup {commitSHA} |->
     IF sha = commitSHA THEN commit ELSE cachedCommits[sha]]

\* The account only has to have an email, not the author's.
authorEmailIncludedAny(account, commit) == Len(account.emails) > 0

\* account.emails.map(e => e.email).includes(commit.author.email)
authorEmailIncluded(account, commit) ==
  commit.author.email \in {account.emails[i].email : i \in 1..Len(account.emails)}

\* A commit is cached only once its author has passed the check.
WithCommitCachesAccepted(h, me, commit) ==
  LET commitSHA == me.event.commit_sha
  IN IF commit = None
     THEN /\ skipCommitShas' = skipCommitShas \cup {commitSHA}
          /\ handlers' = [handlers EXCEPT ![h] = Return(me, "CommitUnresolvable")]
          /\ UNCHANGED cachedCommits
     ELSE IF ~authorEmailIncluded(me.account, commit)
     THEN /\ skipCommitShas' = skipCommitShas \cup {commitSHA}
          /\ handlers' = [handlers EXCEPT ![h] = Return(me, "AuthorMismatch")]
          /\ UNCHANGED cachedCommits
     ELSE /\ cachedCommits' = cachedCommitsSet(commitSHA, commit)
          /\ handlers' = [handlers EXCEPT ![h] =
                Await([me EXCEPT !.commit = commit],
                      "accountsStore.getAll", "getAPIForRepository")]
          /\ UNCHANGED skipCommitShas

\* The SHA of every commit found goes to the Skip Set, its author's or not.
WithCommitSkipsResolved(h, me, commit) ==
  LET commitSHA == me.event.commit_sha
  IN IF commit = None
     THEN /\ skipCommitShas' = skipCommitShas \cup {commitSHA}
          /\ handlers' = [handlers EXCEPT ![h] = Return(me, "CommitUnresolvable")]
          /\ UNCHANGED cachedCommits
     ELSE /\ cachedCommits' = cachedCommitsSet(commitSHA, commit)
          /\ skipCommitShas' = skipCommitShas \cup {commitSHA}
          /\ IF ~authorEmailIncluded(me.account, commit)
             THEN handlers' = [handlers EXCEPT ![h] = Return(me, "AuthorMismatch")]
             ELSE handlers' = [handlers EXCEPT ![h] =
                    Await([me EXCEPT !.commit = commit],
                          "accountsStore.getAll", "getAPIForRepository")]

\* A lookup without a commit ends the handler, the SHA not remembered.
WithCommitNullForgotten(h, me, commit) ==
  LET commitSHA == me.event.commit_sha
  IN IF commit = None
     THEN /\ handlers' = [handlers EXCEPT ![h] = Return(me, "CommitUnresolvable")]
          /\ UNCHANGED <<cachedCommits, skipCommitShas>>
     ELSE /\ cachedCommits' = cachedCommitsSet(commitSHA, commit)
          /\ IF ~authorEmailIncluded(me.account, commit)
             THEN /\ skipCommitShas' = skipCommitShas \cup {commitSHA}
                  /\ handlers' = [handlers EXCEPT ![h] = Return(me, "AuthorMismatch")]
             ELSE /\ handlers' = [handlers EXCEPT ![h] =
                        Await([me EXCEPT !.commit = commit],
                              "accountsStore.getAll", "getAPIForRepository")]
                  /\ UNCHANGED skipCommitShas

\* The handler once it holds the commit (or null), up to the await inside
\* getChecksForRef.
WithCommit(h, me, commit) ==
  LET commitSHA == me.event.commit_sha
  IN IF commit = None
     THEN /\ skipCommitShas' = skipCommitShas \cup {commitSHA}
          /\ handlers' = [handlers EXCEPT ![h] = Return(me, "CommitUnresolvable")]
          /\ UNCHANGED cachedCommits
     ELSE /\ cachedCommits' = cachedCommitsSet(commitSHA, commit)
          /\ IF ~authorEmailIncluded(me.account, commit)
             THEN /\ skipCommitShas' = skipCommitShas \cup {commitSHA}
                  /\ handlers' = [handlers EXCEPT ![h] = Return(me, "AuthorMismatch")]
             ELSE /\ handlers' = [handlers EXCEPT ![h] =
                        Await([me EXCEPT !.commit = commit],
                              "accountsStore.getAll", "getAPIForRepository")]
                  /\ UNCHANGED skipCommitShas

\* accountsStore.getAll answers with accounts: the account, the Skip Set, the
\* Commit Cache, then getCommit on a miss.
ResumeGetAccount(h, accounts) ==
  LET me == handlers[h]
      account == getAccountForRepository(gitHubRepository(me.repository), accounts)
      commitSHA == me.event.commit_sha
      cached == cachedCommitsGet(commitSHA)
  IN /\ me.pc = "getAccountForRepository"
     /\ IF account = None
        THEN /\ handlers' = [handlers EXCEPT ![h] = Return(me, "NoAuthorizedAccount")]
             /\ UNCHANGED <<cachedCommits, skipCommitShas>>
        ELSE IF skipCommitShasHas(commitSHA)
        THEN /\ handlers' = [handlers EXCEPT ![h] = Return(me, "KnownDeadEnd")]
             /\ UNCHANGED <<cachedCommits, skipCommitShas>>
        ELSE IF cached /= None
        THEN WithCommit(h, [me EXCEPT !.account = account], cached)
        ELSE /\ handlers' = [handlers EXCEPT ![h] =
                   Await([me EXCEPT !.account = account], "getCommit", "getCommit")]
             /\ UNCHANGED <<cachedCommits, skipCommitShas>>
     /\ UNCHANGED <<repository, onChecksFailedCallback, settingsVars, notifications,
                    clickVars, lastSelected, lastRegistered>>

\* getCommit answers.
ResumeGetCommit(h) ==
  LET me == handlers[h]
  IN /\ me.pc = "getCommit"
     /\ WithCommit(h, me, getCommit(me.repository, me.event.commit_sha))
     /\ UNCHANGED <<repository, onChecksFailedCallback, settingsVars, notifications,
                    clickVars, lastSelected, lastRegistered>>

\* Inside getChecksForRef, accountsStore.getAll answers with accounts:
\* getAPIForRepository, then the two fetches are issued together.
ResumeGetAPIForRepository(h, accounts) ==
  LET me == handlers[h]
      account == getAccountForRepository(gitHubRepository(me.repository), accounts)
  IN /\ me.pc = "getAPIForRepository"
     /\ IF account = None
        THEN handlers' = [handlers EXCEPT ![h] = Return(me, "ChecksUnavailable")]
        ELSE handlers' = [handlers EXCEPT ![h] =
               [me EXCEPT !.pc = "fetch",
                          !.calls = @ \cup {"fetchCombinedRefStatus", "fetchRefCheckRuns"}]]
     /\ UNCHANGED <<storeVars, settingsVars, notifications, clickVars,
                    lastSelected, lastRegistered>>

\* Every check is counted, whatever its conclusion.
numberOfFailedChecksAll(checks) == Len(checks)

\* The filter matches no conclusion.
numberOfFailedChecksNone(checks) == 0

\* checks.filter(check => check.conclusion === APICheckConclusion.Failure).length
numberOfFailedChecks(checks) ==
  Len(SelectSeq(checks, LAMBDA check : check.conclusion = Failure))

\* The plural, whatever the count.
pluralChecksAlways(count) == "checks were"

\* numberOfFailedChecks === 1 ? 'check was' : 'checks were'
pluralChecks(count) == IF count = 1 THEN "check was" ELSE "checks were"

\* postChecksFailedNotification(pullRequest, checks, sha, commitMessage), called
\* by handler h; origin is what the handler held at that moment, the answers
\* of its two fetches included.
postChecksFailedNotification(h, me, pullRequest, checks, sha, commitMessage) ==
  IF repository = Null
  THEN /\ handlers' = [handlers EXCEPT ![h] = Return(me, "NoActiveRepository")]
       /\ UNCHANGED notifications
  ELSE IF numberOfFailedChecks(checks) = 0
  THEN /\ handlers' = [handlers EXCEPT ![h] = Return(me, "NoFailedChecks")]
       /\ UNCHANGED notifications
  ELSE /\ notifications' = notifications \cup
            {[id |-> h,
              title |-> "Pull Request checks failed",
              body |-> [title |-> pullRequest.title,
                        pullRequestNumber |-> pullRequest.pullRequestNumber,
                        numberOfFailedChecks |-> numberOfFailedChecks(checks),
                        pluralChecks |->
                          pluralChecks(numberOfFailedChecks(checks))],
              repository |-> repository,
              pullRequest |-> pullRequest,
              commitMessage |-> commitMessage,
              sha |-> sha,
              checks |-> checks,
              origin |-> [repository |-> me.repository,
                          account |-> me.account,
                          commit |-> me.commit,
                          fetched |-> me.fetched,
                          selectionChanged |-> me.selectionChanged,
                          enabled |-> getNotificationsEnabled]]}
       /\ handlers' = [handlers EXCEPT ![h] = Return(me, "Posted")]

\* Both fetches have answered: the rest of getChecksForRef and of the handler.
ResumeFetch(h, statuses, checkRuns) ==
  LET me == handlers[h]
      checks == ChecksFromResponses(statuses, checkRuns)
  IN /\ me.pc = "fetch"
     /\ IF checks = None
        THEN /\ handlers' = [handlers EXCEPT ![h] = Return(me, "ChecksUnavailable")]
             /\ UNCHANGED notifications
        ELSE postChecksFailedNotification(
               h, [me EXCEPT !.fetched = [statuses |-> statuses,
                                          checkRuns |-> checkRuns]],
               me.pullRequest, checks.checks, me.event.commit_sha,
               me.commit.summary)
     /\ UNCHANGED <<storeVars, settingsVars, clickVars, lastSelected, lastRegistered>>

\* ----------------------------------------------------- the specification

\* The handler's steps, with the selection changing under it.
NextHandlers ==
  \/ \E r \in Repositories : selectRepository(r)
  \/ \E h \in Handlers, e \in AliveEvents : onAliveEventReceived(h, e)
  \/ \E h \in Handlers : ResumeGetAllPullRequests(h)
  \/ \E h \in Handlers, accounts \in AccountLists : ResumeGetAccount(h, accounts)
  \/ \E h \in Handlers : ResumeGetCommit(h)
  \/ \E h \in Handlers, accounts \in AccountLists : ResumeGetAPIForRepository(h, accounts)
  \/ \E h \in Handlers, statuses \in StatusResponses, checkRuns \in CheckRunResponses :
       ResumeFetch(h, statuses, checkRuns)

\* The store with its notifications switched on and off.
Next ==
  \/ NextHandlers
  \/ \E enabled \in BOOLEAN : setNotificationsEnabled(enabled)

Spec == Init /\ [][Next]_vars

\* The store with callbacks registered and notifications clicked.  Neither
\* operation writes anything the handler or setNotificationsEnabled reads.
NextClick ==
  \/ NextHandlers
  \/ \E callback \in Callbacks : onChecksFailedNotification(callback)
  \/ \E n \in notifications : Click(n)

SpecClick == Init /\ [][NextClick]_vars

\* The store with its notifications switched and callbacks registered, none
\* of its notifications clicked.
NextOperations ==
  \/ Next
  \/ \E callback \in Callbacks : onChecksFailedNotification(callback)

SpecOperations == Init /\ [][NextOperations]_vars

\* One invocation of the handler, its two fetches answering with any of the
\* enumerated answers.
NextAggregation ==
  \/ \E r \in Repositories : selectRepository(r)
  \/ \E e \in AliveEvents : onAliveEventReceived(1, e)
  \/ ResumeGetAllPullRequests(1)
  \/ \E accounts \in AccountLists : ResumeGetAccount(1, accounts)
  \/ ResumeGetCommit(1)
  \/ \E accounts \in AccountLists : ResumeGetAPIForRepository(1, accounts)
  \/ \E statuses \in StatusInputs, checkRuns \in CheckRunInputs :
       ResumeFetch(1, statuses, checkRuns)

SpecAggregation == Init /\ [][NextAggregation]_vars

\* The collaborators as the liveness of the handler supposes them: the
\* accounts are signed in whenever they are asked for, and the two fetches
\* answer with at least one failed entry between them.
SignedInAccounts == <<gheAccount, dotcomAccount>>

FailingFetches ==
  {f \in [statuses : StatusResponses \ {None},
           checkRuns : CheckRunResponses \ {None}] :
     \/ \E i \in 1..Len(f.statuses.statuses) :
          f.statuses.statuses[i].state = "failure"
     \/ \E i \in 1..Len(f.checkRuns.check_runs) :
          f.checkRuns.check_runs[i].conclusion = Failure}

\* A collaborator call of handler h returns.
CollaboratorReturns(h) ==
  \/ ResumeGetAllPullRequests(h)
  \/ ResumeGetAccount(h, SignedInAccounts)
  \/ ResumeGetCommit(h)
  \/ ResumeGetAPIForRepository(h, SignedInAccounts)
  \/ \E f \in FailingFetches : ResumeFetch(h, f.statuses, f.checkRuns)

NextLive ==
  \/ \E r \in Repositories : selectRepository(r)
  \/ \E h \in Handlers, e \in AliveEvents : onAliveEventReceived(h, e)
  \/ \E h \in Handlers : CollaboratorReturns(h)

\* The store constructed with nothing persisted: notifications are on.
InitLive ==
  /\ Init
  /\ DOMAIN localStorage = {}

\* Every collaborator call eventually returns: while a handler is suspended
\* at a call, some suspended handler is eventually resumed.
SpecLive ==
  /\ InitLive
  /\ [][NextLive]_vars
  /\ WF_vars(\E h \in Handlers : CollaboratorReturns(h))

\* Every operation at once.
NextAll == Next \/ NextClick

SpecAll == Init /\ [][NextAll]_vars

\* ------------------------------------------------------------- the claims

PostedBy(h) == {n \in notifications : n.id = h}

EmailsOf(account) == {account.emails[i].email : i \in 1..Len(account.emails)}

HasFailure(checks) == \E i \in 1..Len(checks) : checks[i].conclusion = Failure

\* C1: no notification is posted for an event if the selection was changed (to
\* another repository or to none) between the event's intake and the end of
\* its check fetch.
C1_NoNotificationAfterSelectionChange ==
  \A n \in notifications : ~n.origin.selectionChanged

\* C2: a notification is shown only if the persisted enabled flag is true at
\* the moment of posting.
C2_NoNotificationWhileDisabled ==
  \A n \in notifications : n.origin.enabled

\* C3: no notification is shown, and so no click handler bound, for a check
\* list without an entry whose conclusion is exactly failure.
C3_NoNotificationForZeroFailedChecks ==
  /\ \A n \in notifications : HasFailure(n.checks)
  /\ \A h \in Handlers :
       handlers[h].outcome = "NoFailedChecks" => PostedBy(h) = {}

\* C3 witness: a handler got a non-empty check list without a failure and
\* returned from postChecksFailedNotification.
C3_Witness ==
  \E h \in Handlers :
    handlers[h].outcome = "NoFailedChecks" /\ PostedBy(h) = {}

\* C4: every notification shown is for the event's SHA, and the author email
\* of the commit resolved for it is among the emails of the account the
\* handler resolved for the endpoint of its repository.
C4_NotificationsAreForOwnCommits ==
  \A n \in notifications :
    /\ n.origin.commit.sha = n.sha
    /\ n.origin.account.endpoint = gitHubRepository(n.origin.repository).endpoint
    /\ n.origin.commit.author.email \in EmailsOf(n.origin.account)

\* C4 witness: a notification for a commit whose author email is the second
\* of the account's emails.
C4_Witness ==
  \E n \in notifications :
    /\ n.origin.commit.author.email = "me@corp"
    /\ n.origin.commit.author.email \in EmailsOf(n.origin.account)

FetchCalls == {"fetchCombinedRefStatus", "fetchRefCheckRuns"}

\* The handler in slot h takes an event in.
Intake(h) == handlers[h].pc = "idle" /\ handlers'[h].pc /= "idle"

\* The commit getCommit is about to answer handler h with is by somebody else.
LookupFindsOthersCommit(h) ==
  LET me == handlers[h]
      commit == getCommit(me.repository, me.event.commit_sha)
  IN /\ me.pc = "getCommit"
     /\ handlers'[h].pc /= "getCommit"
     /\ commit /= None
     /\ commit.author.email \notin EmailsOf(me.account)

\* Handler h leaves through the author check.
LeavesByAuthorMismatch(h) ==
  handlers[h].pc /= "done" /\ handlers'[h].outcome = "AuthorMismatch"

\* C5, the later event: a handler whose event's SHA was in the Skip Set at
\* intake calls at most the pull request list and the accounts, never the
\* commit lookup or a status/check-run fetch, and posts nothing.
C5_SkippedShaShortCircuits ==
  \A h \in Handlers :
    handlers[h].skipKnown =>
      /\ handlers[h].calls \subseteq {"getAllPullRequests", "accountsStore.getAll"}
      /\ handlers[h].calls \cap ({"getCommit"} \cup FetchCalls) = {}
      /\ handlers[h].pc \in {"getAllPullRequests", "getAccountForRepository", "done"}
      /\ PostedBy(h) = {}

\* C5: a handler that resolves a commit whose author email is not among the
\* account's emails returns at once, posts nothing and leaves the SHA in the
\* Skip Set; a later event for a SHA in the Skip Set short-circuits as above.
C5_AuthorMismatchIsSkipped ==
  /\ []C5_SkippedShaShortCircuits
  /\ [][\A h \in Handlers :
          (LookupFindsOthersCommit(h) \/ LeavesByAuthorMismatch(h)) =>
            /\ handlers'[h].pc = "done"
            /\ handlers'[h].outcome = "AuthorMismatch"
            /\ handlers'[h].calls \cap FetchCalls = {}
            /\ handlers[h].event.commit_sha \in skipCommitShas'
            /\ notifications' = notifications]_vars

\* C5 witness: one handler left through the author check, and a later one,
\* whose SHA was by then in the Skip Set, left at the Skip Set check.
C5_Witness ==
  \E g, h \in Handlers :
    /\ handlers[g].outcome = "AuthorMismatch"
    /\ handlers[h].skipKnown
    /\ handlers[h].outcome = "KnownDeadEnd"
    /\ skipCommitShas = {"sha_b"}

\* C6: an event of another kind than checks-failed is taken in without a
\* collaborator call, without a change to the Commit Cache, the Skip Set, the
\* selection, the enabled flag or the callback, and without a notification.
C6_OtherEventsHaveNoEffect ==
  [][\A h \in Handlers :
       (Intake(h) /\ handlers'[h].event.type /= ChecksFailedType) =>
         /\ handlers'[h].pc = "done"
         /\ handlers'[h].calls = {}
         /\ UNCHANGED <<repository, onChecksFailedCallback, cachedCommits,
                        skipCommitShas, localStorage, aliveEnabled, setEnabledCalls,
                        setBooleanCalls, notifications, invocations>>]_vars

\* C6 witness: an event of another kind was delivered while a repository was
\* selected.
C6_Witness ==
  \E h \in Handlers :
    /\ handlers[h].pc = "done"
    /\ handlers[h].event.type = OtherType
    /\ handlers[h].calls = {}
    /\ repository /= Null

\* The flag in effect: the persisted one, or true when none is persisted.
FlagInEffect ==
  IF NotificationsEnabledKey \in DOMAIN localStorage
  THEN localStorage[NotificationsEnabledKey]
  ELSE TRUE

\* C7: setNotificationsEnabled(v) with v the value in effect writes nothing to
\* the settings and does not call aliveStore.setEnabled.
C7_SameValueIsNoOp ==
  [][\A v \in BOOLEAN :
       (setNotificationsEnabled(v) /\ v = FlagInEffect) =>
         UNCHANGED <<localStorage, setBooleanCalls, aliveEnabled, setEnabledCalls>>]_vars

\* C7 witness: setNotificationsEnabled(true) was called with nothing persisted,
\* and nothing is persisted or passed on since.
C7_Witness ==
  /\ lastEnabled = {TRUE}
  /\ DOMAIN localStorage = {}
  /\ setBooleanCalls = 0
  /\ setEnabledCalls = 1

\* C8: the value last given to aliveStore.setEnabled is the persisted flag
\* (true when none is persisted), and getNotificationsEnabled returns it.
C8_AliveStoreFollowsFlag ==
  /\ aliveEnabled = FlagInEffect
  /\ getNotificationsEnabled = FlagInEffect

\* C8 witness: the flag was changed to false after construction.
C8_Witness ==
  /\ setEnabledCalls = 2
  /\ setBooleanCalls = 1
  /\ lastEnabled = {FALSE}
  /\ aliveEnabled = FALSE

\* Where the selection has to be after selectRepository(lastSelected).
SelectionExpected ==
  IF lastSelected \in {"repoA", "repoB"} THEN lastSelected ELSE Null

\* C9: the selection is the argument of the last selectRepository call if that
\* repository has a GitHub repository and none otherwise; a checks-failed event
\* taken in with no selection returns at once: no collaborator call, no change
\* to the Commit Cache or the Skip Set, no notification.
C9_SelectionIsLastSelected ==
  /\ [](repository = SelectionExpected)
  /\ [][\A h \in Handlers :
          (Intake(h) /\ handlers'[h].event.type = ChecksFailedType
                     /\ repository = Null) =>
            /\ handlers'[h].pc = "done"
            /\ handlers'[h].calls = {}
            /\ UNCHANGED <<cachedCommits, skipCommitShas, notifications>>]_vars

\* C9 witness: a repository without a GitHub repository was selected after one
\* with, and a checks-failed event taken in with no selection has returned.
C9_Witness ==
  /\ lastSelected = "localOnly"
  /\ repository = Null
  /\ \E h \in Handlers :
       /\ handlers[h].outcome = "NoActiveRepository"
       /\ handlers[h].event.type = ChecksFailedType
       /\ handlers[h].calls = {}
  /\ \E h \in Handlers : handlers[h].outcome = "Posted"

\* The notification a click recorded last was on.
LastClicked == CHOOSE n \in notifications' : n.id = clicked'[Len(clicked')]

\* C10: a click calls the callback registered last, once, with the pull
\* request, commit summary, SHA and checks of the notification clicked, and
\* calls nothing if none was ever registered; nothing else calls a callback.
C10_ClickInvokesLatestCallback ==
  [][IF Len(clicked') > Len(clicked)
     THEN IF lastRegistered = Null
          THEN invocations' = invocations
          ELSE /\ Len(invocations') = Len(invocations) + 1
               /\ SubSeq(invocations', 1, Len(invocations)) = invocations
               /\ LET call == invocations'[Len(invocations')]
                      n == LastClicked
                  IN /\ call.callback = lastRegistered
                     /\ call.pullRequest = n.pullRequest
                     /\ call.commitMessage = n.origin.commit.summary
                     /\ call.commitSha = n.origin.commit.sha
                     /\ call.checkRuns = n.checks
     ELSE invocations' = invocations]_vars

\* C10 witness: a notification was clicked and the second callback called.
C10_Witness ==
  /\ Len(clicked) = 1
  /\ Len(invocations) = 1
  /\ invocations[1].callback = "cb2"
  /\ lastRegistered = "cb2"

\* Handler h resolves its event's commit: the lookup answers, or the Commit
\* Cache held the commit when the handler came to it.
Resolves(h) ==
  /\ handlers[h].pc \in {"getAccountForRepository", "getCommit"}
  /\ \/ handlers'[h].pc = "getAPIForRepository"
     \/ handlers'[h].outcome \in {"CommitUnresolvable", "AuthorMismatch"}

\* C11 as claimed: no SHA is in both the Commit Cache and the Skip Set.
C11_ShaInAtMostOne == DOMAIN cachedCommits \cap skipCommitShas = {}

\* C11 as amended: the step that resolves an event's commit leaves its SHA in
\* the Skip Set alone if no commit was found, in both the Commit Cache and the
\* Skip Set if a commit was found whose author is not the account's, and adds
\* it to the Commit Cache alone if the author is the account's.
C11_ResolvedShaIsPlaced ==
  [][\A h \in Handlers :
       Resolves(h) =>
         LET sha == handlers[h].event.commit_sha
             left == handlers'[h].outcome
         IN /\ sha \in DOMAIN cachedCommits' \cup skipCommitShas'
            /\ left = "CommitUnresolvable" =>
                 /\ sha \in skipCommitShas'
                 /\ cachedCommits' = cachedCommits
            /\ left = "AuthorMismatch" =>
                 /\ sha \in skipCommitShas'
                 /\ sha \in DOMAIN cachedCommits'
            /\ handlers'[h].pc = "getAPIForRepository" =>
                 /\ sha \in DOMAIN cachedCommits'
                 /\ cachedCommits'[sha] = handlers'[h].commit
                 /\ skipCommitShas' = skipCommitShas]_vars

\* C11 witness: a commit found and rejected by its author is in both, a SHA
\* without a commit in the Skip Set alone.
C11_Witness ==
  /\ "sha_b" \in DOMAIN cachedCommits \cap skipCommitShas
  /\ "sha_c" \in skipCommitShas \ DOMAIN cachedCommits

\* The commit handler h resolves in this step: the lookup's answer, or the
\* entry of the Commit Cache.
ResolvedCommit(h) ==
  LET me == handlers[h]
      sha == me.event.commit_sha
  IN IF me.pc = "getCommit" THEN getCommit(me.repository, sha)
     ELSE IF sha \in DOMAIN cachedCommits THEN cachedCommits[sha]
     ELSE None

\* The accounts handler h may hold when it resolves its commit.
ResolvingAccounts(h) ==
  LET me == handlers[h]
  IN IF me.pc = "getCommit" THEN {me.account}
     ELSE {getAccountForRepository(gitHubRepository(me.repository), accounts) :
             accounts \in AccountLists} \ {None}

\* C12: no step removes a SHA from the Skip Set, whatever is called in
\* between; a step adds a SHA only if it is the SHA of a handler's event whose
\* commit lookup answers with no commit in that step, or whose commit is
\* resolved in that step with an author email that is not the account's.
C12_SkipSetOnlyGrows ==
  [][/\ skipCommitShas \subseteq skipCommitShas'
     /\ \A sha \in skipCommitShas' \ skipCommitShas :
          \E h \in Handlers :
            /\ Resolves(h)
            /\ handlers[h].event.commit_sha = sha
            /\ \/ handlers[h].pc = "getCommit" /\ ResolvedCommit(h) = None
               \/ /\ ResolvedCommit(h) /= None
                  /\ \E account \in ResolvingAccounts(h) :
                       ResolvedCommit(h).author.email \notin EmailsOf(account)]_vars

\* C12 witness: the Skip Set grew for either reason, with the flag switched
\* and a callback registered along the way.
C12_Witness ==
  /\ skipCommitShas = {"sha_b", "sha_c"}
  /\ onChecksFailedCallback /= Null
  /\ lastEnabled /= {}

\* C13: every entry of the Commit Cache maps a SHA to the commit the lookup
\* returns for that SHA, and no step of any handler, however interleaved,
\* removes an entry or changes its value.
C13_CacheIsNeverCorrupted ==
  /\ [](\A sha \in DOMAIN cachedCommits :
          /\ cachedCommits[sha] /= None
          /\ cachedCommits[sha].sha = sha
          /\ \E r \in Repositories : cachedCommits[sha] = getCommit(r, sha))
  /\ [][\A sha \in DOMAIN cachedCommits :
          /\ sha \in DOMAIN cachedCommits'
          /\ cachedCommits'[sha] = cachedCommits[sha]]_vars

\* C13 witness: two handlers for the same SHA both missed the Commit Cache,
\* both called the lookup and both wrote its answer.
C13_Witness ==
  /\ \A h \in Handlers :
       /\ "getCommit" \in handlers[h].calls
       /\ handlers[h].pc \in {"getAPIForRepository", "fetch", "done"}
  /\ DOMAIN cachedCommits = {"sha_a"}
  /\ skipCommitShas = {}

\* The commit lookup is about to answer handler h that there is no commit.
LookupFindsNoCommit(h) ==
  /\ handlers[h].pc = "getCommit"
  /\ handlers'[h].pc /= "getCommit"
  /\ getCommit(handlers[h].repository, handlers[h].event.commit_sha) = None

\* C14: the step in which the lookup answers with no commit ends the handler
\* with the SHA in the Skip Set, the Commit Cache as it was, no status or
\* check-run fetch issued and no notification shown.
C14_NoCommitIsSkipped ==
  [][\A h \in Handlers :
       LookupFindsNoCommit(h) =>
         /\ handlers'[h].pc = "done"
         /\ handlers[h].event.commit_sha \in skipCommitShas'
         /\ cachedCommits' = cachedCommits
         /\ handlers'[h].calls \cap FetchCalls = {}
         /\ notifications' = notifications
         /\ PostedBy(h) = {}]_vars

\* C14 witness: a handler called the lookup for a SHA in no repository.
C14_Witness ==
  /\ \E h \in Handlers :
       /\ handlers[h].outcome = "CommitUnresolvable"
       /\ "getCommit" \in handlers[h].calls
  /\ skipCommitShas = {"sha_c"}
  /\ DOMAIN cachedCommits = {}

\* Handler h comes to the resolution of its commit: its account is found and
\* its event's SHA is not in the Skip Set.
ReachesResolution(h) ==
  /\ handlers[h].pc = "getAccountForRepository"
  /\ handlers'[h].pc /= "getAccountForRepository"
  /\ handlers'[h].outcome /= "NoAuthorizedAccount"
  /\ handlers[h].event.commit_sha \notin skipCommitShas

\* C15: a handler that comes to the resolution of its commit with the SHA in
\* the Commit Cache does not call the lookup and goes on with the cached
\* commit; a handler calls the lookup only when it comes to the resolution
\* with the SHA not in the Commit Cache.
C15_CacheIsConsultedFirst ==
  [][\A h \in Handlers :
       LET sha == handlers[h].event.commit_sha
       IN /\ (ReachesResolution(h) /\ sha \in DOMAIN cachedCommits) =>
               /\ handlers'[h].pc \in {"getAPIForRepository", "done"}
               /\ "getCommit" \notin handlers'[h].calls
               /\ handlers'[h].pc = "getAPIForRepository" =>
                    handlers'[h].commit = cachedCommits[sha]
               /\ handlers'[h].pc = "done" =>
                    handlers'[h].outcome = "AuthorMismatch"
          /\ "getCommit" \in handlers'[h].calls \ handlers[h].calls =>
               /\ ReachesResolution(h)
               /\ sha \notin DOMAIN cachedCommits
               /\ handlers'[h].pc = "getCommit"]_vars

\* C15 witness: one handler called the lookup and cached its answer, another
\* came to the same SHA later and goes on with the cached commit, the lookup
\* not called.
C15_Witness ==
  \E g, h \in Handlers :
    /\ "getCommit" \in handlers[g].calls
    /\ handlers[h].pc = "getAPIForRepository"
    /\ "getCommit" \notin handlers[h].calls
    /\ handlers[h].event.commit_sha \in DOMAIN cachedCommits
    /\ handlers[h].commit = cachedCommits[handlers[h].event.commit_sha]

\* The two fetches answer handler h with a null, or with no entry at all.
FetchGivesNoChecks(h) ==
  \E statuses \in StatusResponses, checkRuns \in CheckRunResponses :
    /\ ResumeFetch(h, statuses, checkRuns)
    /\ \/ statuses = None
       \/ checkRuns = None
       \/ Len(statuses.statuses) + Len(checkRuns.check_runs) = 0

\* No account, and so no API client, is found for handler h inside
\* getChecksForRef.
NoAPIForRepository(h) ==
  \E accounts \in AccountLists :
    /\ ResumeGetAPIForRepository(h, accounts)
    /\ \A i \in 1..Len(accounts) :
         accounts[i].endpoint /= gitHubRepository(handlers[h].repository).endpoint

\* C16: a handler issues the status fetch and the check-run fetch together or
\* neither; every notification shown is built from two non-null answers and a
\* non-empty check list; a handler whose fetches answer with a null or with
\* no entry at all, or that finds no API client, returns with nothing shown.
C16_AggregationIsAllOrNothing ==
  /\ [](\A h \in Handlers :
          /\ handlers[h].calls \cap FetchCalls /= {} =>
               FetchCalls \subseteq handlers[h].calls
          /\ handlers[h].pc = "fetch" => FetchCalls \subseteq handlers[h].calls)
  /\ [](\A n \in notifications :
          /\ n.origin.fetched.statuses /= None
          /\ n.origin.fetched.checkRuns /= None
          /\ Len(n.checks) > 0)
  /\ [][\A h \in Handlers :
          /\ FetchGivesNoChecks(h) =>
               /\ handlers'[h].pc = "done"
               /\ notifications' = notifications
          /\ NoAPIForRepository(h) =>
               /\ handlers'[h].pc = "done"
               /\ handlers'[h].calls \cap FetchCalls = {}
               /\ notifications' = notifications]_vars

\* C16 witness: one handler's status fetch answered null and it showed
\* nothing, another found no API client, issued no fetch and showed nothing.
C16_Witness ==
  \E g, h \in Handlers :
    /\ handlers[g].outcome = "ChecksUnavailable"
    /\ FetchCalls \subseteq handlers[g].calls
    /\ handlers[h].outcome = "ChecksUnavailable"
    /\ handlers[h].calls \cap FetchCalls = {}
    /\ notifications = {}

\* checks is the aggregate of statuses and checkRuns: the statuses one to one
\* and in their order, then exactly one entry for each name among the check
\* runs, each the run of its name with the largest id.
IsAggregateOf(checks, statuses, checkRuns) ==
  LET k == Len(statuses)
      names == {checkRuns[i].name : i \in 1..Len(checkRuns)}
  IN /\ Len(checks) = k + Cardinality(names)
     /\ \A i \in 1..k :
          /\ checks[i].id = statuses[i].id
          /\ checks[i].name = statuses[i].context
          /\ checks[i].conclusion = Failure <=> statuses[i].state = "failure"
     /\ \A name \in names :
          Cardinality({j \in (k + 1)..Len(checks) : checks[j].name = name}) = 1
     /\ \A j \in (k + 1)..Len(checks) :
          \E i \in 1..Len(checkRuns) :
            /\ checks[j].id = checkRuns[i].id
            /\ checks[j].name = checkRuns[i].name
            /\ checks[j].conclusion = checkRuns[i].conclusion
            /\ \A i2 \in 1..Len(checkRuns) :
                 checkRuns[i2].name = checkRuns[i].name =>
                   checkRuns[i2].id <= checkRuns[i].id

\* C17: the check list of every notification is the aggregate of the two
\* answers it was built from: the status entries one to one in source order,
\* then one entry per distinct check-run name, the most recent run of it.
C17_AggregateIsStatusesThenLatestRuns ==
  \A n \in notifications :
    IsAggregateOf(n.checks, n.origin.fetched.statuses.statuses,
                  n.origin.fetched.checkRuns.check_runs)

\* C17 witness: runs 1 (success) and 2 (failure) of build, after a status,
\* gave the status entry followed by the run-2 entry alone.
C17_Witness ==
  \E n \in notifications :
    /\ Len(n.origin.fetched.statuses.statuses) = 1
    /\ n.origin.fetched.checkRuns.check_runs =
         <<[id |-> 1, name |-> "build", conclusion |-> "success"],
           [id |-> 2, name |-> "build", conclusion |-> Failure]>>
    /\ Len(n.checks) = 2
    /\ n.checks[2] = [id |-> 2, name |-> "build", conclusion |-> Failure]

\* The checks of n whose conclusion is exactly failure.
FailedChecksOf(n) == {i \in 1..Len(n.checks) : n.checks[i].conclusion = Failure}

\* C18: the count in the body of a notification is the number of its checks
\* whose conclusion is exactly failure; the body says "check was" exactly
\* when that number is 1 and "checks were" when it is 2 or more.
C18_BodyCountsFailedChecks ==
  \A n \in notifications :
    LET N == Cardinality(FailedChecksOf(n))
    IN /\ n.body.numberOfFailedChecks = N
       /\ n.body.pluralChecks = "check was" <=> N = 1
       /\ N >= 2 => n.body.pluralChecks = "checks were"

\* C18 witness: of three checks one cancelled, one successful and one failed,
\* the body counts one and uses the singular.
C18_Witness ==
  \E n \in notifications :
    /\ Len(n.checks) = 3
    /\ \E i \in 1..3 : n.checks[i].conclusion = "cancelled"
    /\ \E i \in 1..3 : n.checks[i].conclusion = "success"
    /\ n.body.numberOfFailedChecks = 1
    /\ n.body.pluralChecks = "check was"

\* Handler h has just taken in a checks-failed event with a repository
\* selected, the pull request is in that repository's list, the SHA is not in
\* the Skip Set, and the commit of the SHA is by the account of the endpoint.
Arrived(h) ==
  LET me == handlers[h]
      pullRequests == getAllPullRequests(me.repository)
      account == getAccountForRepository(gitHubRepository(me.repository),
                                         SignedInAccounts)
      commit == getCommit(me.repository, me.event.commit_sha)
  IN /\ me.pc = "getAllPullRequests"
     /\ repository = me.repository
     /\ ~me.selectionChanged
     /\ \E i \in 1..Len(pullRequests) :
          pullRequests[i].pullRequestNumber = me.event.pull_request_number
     /\ account /= None
     /\ me.event.commit_sha \notin skipCommitShas
     /\ commit /= None
     /\ commit.author.email \in EmailsOf(account)

\* What the claim supposes of handler h no longer holds: the selection has
\* changed under it, or its SHA has entered the Skip Set before it got to the
\* Skip Set check.
NoLongerSupposed(h) ==
  /\ InFlight(handlers[h])
  /\ \/ handlers[h].selectionChanged
     \/ /\ handlers[h].pc \in {"getAllPullRequests", "getAccountForRepository"}
        /\ handlers[h].event.commit_sha \in skipCommitShas

\* Handler h has returned with exactly one notification shown for its event.
Shown(h) ==
  /\ handlers[h].pc = "done"
  /\ handlers[h].outcome = "Posted"
  /\ Cardinality(PostedBy(h)) = 1

C20_CallbackGetsIntakeRepository ==
  [][Len(invocations') > Len(invocations) =>
       invocations'[Len(invocations')].repository =
         LastClicked.origin.repository]_vars

====
